---- MODULE Spec2Model ----
(***************************************************************************)
(* Model of the Matroska/EBML fragment processing of the Amazon KVS audio  *)
(* consumer library for Python:                                            *)
(*   amazon_kinesis_video_consumer_library/kinesis_video_fragment_processor.py *)
(* KvsFragementProcessor.parse_vint, extract_simpleblock_data,             *)
(* get_fragment_tags, get_simple_block_offset and get_audio_tracks.        *)
(*                                                                         *)
(* A call of a Python function is one action: it either returns a value or *)
(* raises an exception, and both outcomes are recorded in `result`.        *)
(***************************************************************************)
EXTENDS Integers, Sequences, FiniteSets

VARIABLES
    data,          \* the byte buffer handed to parse_vint / extract_simpleblock_data
    offset,        \* the offset argument of parse_vint (0-based, as in Python)
    given,         \* how the buffer was built: the integer and length that were encoded
    fragment_dom,  \* the parsed fragment: the ordered top-level elements of the document
    pc,            \* "ready" before the call, "done" after it
    called,        \* name of the function that was called ("" before the call)
    result,        \* outcome of the call: [raised, value]
    diagnostics,   \* number of log.error records emitted by the call
    \* KvsPythonConsumerExample (kvs_consumer_library_example.py):
    audio_from_customer,      \* self.audio_from_customer, a bytearray
    audio_to_customer,        \* self.audio_to_customer, a bytearray
    last_good_fragment_tags,  \* self.last_good_fragment_tags: None or Some(dict)
    current_audio_length,     \* self.current_audio_length, in units of 1/16000 s
    stream_stopped,           \* self.stream_stopped
    main_pc,                  \* where service_loop is, in the main thread
    consumer_pc,              \* the KvsConsumerLibrary thread: unstarted, running, completed, failed
    arrived,                  \* the fragments on_fragment_arrived was called with, in order
    fragment_errors,          \* number of 'on_fragment_arrived Error' records logged
    propagated                \* the exception on_fragment_arrived let out last ("" for none)

\* The state of the consumer example.
consumer_vars ==
    <<audio_from_customer, audio_to_customer, last_good_fragment_tags,
      current_audio_length, stream_stopped, main_pc, consumer_pc, arrived,
      fragment_errors, propagated>>

\* The state of a single call of a KvsFragementProcessor function.
call_vars == <<data, offset, given, fragment_dom, pc, called, result, diagnostics>>

vars == <<call_vars, consumer_vars>>

----------------------------------------------------------------------------
(* Outcomes of a Python call.                                              *)

\* Python's None.
None == <<>>

\* A normal return of `v`.
Return(v) == [raised |-> "", value |-> v]

\* An exception of class `exc` leaves the function; no value is returned.
Raise(exc) == [raised |-> exc, value |-> None]

----------------------------------------------------------------------------
(* Python integers are unbounded.  A vint carries up to 56 value bits, so  *)
(* an integer is kept as its base-256 digits, most significant first and   *)
(* without leading zeros (zero is the empty sequence).                     *)

\* The integer `b` (0..255) as an unbounded integer.
IntOfByte(b) == IF b = 0 THEN <<>> ELSE <<b>>

\* (value << 8) | b for a byte b.
ShiftLeft8Or(value, b) == IF value = <<>> THEN IntOfByte(b) ELSE Append(value, b)

\* a & b on non-negative integers.
RECURSIVE BitAnd(_, _)
BitAnd(a, b) ==
    IF a = 0 \/ b = 0 THEN 0
    ELSE (a % 2) * (b % 2) + 2 * BitAnd(a \div 2, b \div 2)

----------------------------------------------------------------------------
(* parse_vint                                                              *)

\* mask = 0x80
VintFirstMask == 128

\* the largest vint size: while size <= 8 ... / if size > 8
VintMaxSize == 8

\* data[i] with an index i >= 0 (offset and i are never negative here)
\* succeeds iff i < len(data), and raises IndexError otherwise.
HasIndex(bytes, i) == i < Len(bytes)

\* data[i], Python's 0-based indexing.
ByteAt(bytes, i) == bytes[i + 1]

\* Mutant of VintScanContinues: the size test is `size < 8`.
VintScanContinues_strict(first_byte, mask, size) ==
    size < VintMaxSize /\ BitAnd(first_byte, mask) = 0

\* The loop test `size <= 8 and not (first_byte & mask)`.
VintScanContinues(first_byte, mask, size) ==
    size <= VintMaxSize /\ BitAnd(first_byte, mask) = 0

\* while size <= 8 and not (first_byte & mask): mask >>= 1; size += 1
RECURSIVE VintScan(_, _, _)
VintScan(first_byte, mask, size) ==
    IF VintScanContinues(first_byte, mask, size)
    THEN VintScan(first_byte, mask \div 2, size + 1)
    ELSE [mask |-> mask, size |-> size]

\* Mutant of VintFirstValue: the marker bit is not masked out.
VintFirstValue_keepsMarker(first_byte, mask) == IntOfByte(first_byte)

\* value = first_byte & (mask - 1)
VintFirstValue(first_byte, mask) == IntOfByte(BitAnd(first_byte, mask - 1))

\* for i in range(1, size): value = (value << 8) | data[offset + i]
\* (called with i = 1; every data[offset + i] read here is in range)
RECURSIVE VintAccumulate(_, _, _, _, _)
VintAccumulate(bytes, off, size, i, value) ==
    IF i >= size THEN value
    ELSE VintAccumulate(bytes, off, size, i + 1,
                        ShiftLeft8Or(value, ByteAt(bytes, off + i)))

\* Mutant of parse_vint: the bytes are taken with a slice, data[offset:offset+size],
\* which is silently shorter when the buffer ends early.
parse_vint_sliced(bytes, off) ==
    IF ~HasIndex(bytes, off) THEN Raise("IndexError")
    ELSE
        LET first_byte == ByteAt(bytes, off)
            scan == VintScan(first_byte, VintFirstMask, 1)
            avail == IF off + scan.size <= Len(bytes) THEN scan.size
                     ELSE Len(bytes) - off
        IN  IF scan.size > VintMaxSize THEN Raise("ValueError")
            ELSE Return(<<VintAccumulate(bytes, off, avail, 1,
                                         VintFirstValue(first_byte, scan.mask)),
                          scan.size>>)

\* parse_vint(data, offset): (value, size), or IndexError from an index past the
\* end of the buffer, or ValueError when no marker bit is in the first byte.
parse_vint(bytes, off) ==
    IF ~HasIndex(bytes, off) THEN Raise("IndexError")
    ELSE
        LET first_byte == ByteAt(bytes, off)
            scan == VintScan(first_byte, VintFirstMask, 1)
        IN  IF scan.size > VintMaxSize THEN Raise("ValueError")
            ELSE IF \E i \in 1..(scan.size - 1) : ~HasIndex(bytes, off + i)
                 THEN Raise("IndexError")
            ELSE Return(<<VintAccumulate(bytes, off, scan.size, 1,
                                         VintFirstValue(first_byte, scan.mask)),
                          scan.size>>)

----------------------------------------------------------------------------
(* extract_simpleblock_data                                                *)

\* byte_array[start:], Python's slice: empty when start is at or past the end.
SliceFrom(bytes, start) ==
    IF start >= Len(bytes) THEN <<>> ELSE SubSeq(bytes, start + 1, Len(bytes))

\* Mutant of SimpleBlockPayloadOffset: the flags byte is not skipped.
SimpleBlockPayloadOffset_noFlags(size) == size + 2

\* payload_offset = size + 2 + 1
SimpleBlockPayloadOffset(size) == size + 2 + 1

\* extract_simpleblock_data(byte_array): (track_number, data_payload); an
\* exception of parse_vint propagates.
extract_simpleblock_data(byte_array) ==
    LET vint == parse_vint(byte_array, 0)
    IN  IF vint.raised # "" THEN vint
        ELSE Return(<<vint.value[1],
                      SliceFrom(byte_array, SimpleBlockPayloadOffset(vint.value[2]))>>)

----------------------------------------------------------------------------
(* The fragment DOM.  An element carries its EBML id; a master element     *)
(* carries its ordered children, a string/integer/binary element its       *)
(* decoded value, and every element its payloadOffset and size in the      *)
(* fragment's bytes (kept here for SimpleBlocks, the only ones read).      *)

MasterElement(id, children) == [id |-> id, children |-> children]

\* A string or binary element and its decoded value.
ValueElement(id, value) == [id |-> id, value |-> value]

\* An unsigned integer element and its decoded value.
UIntegerElement(id, value) == [id |-> id, value |-> value, unsigned |-> TRUE]

\* MKV Segment Element ID 0x18538067
SegmentId == 408125543

\* Tags element type ID 0x1254C367
TagsId == 307544935

\* Tag element type ID 0x7373
TagId == 29555

\* SimpleTag element type ID 0x67C8
SimpleTagId == 26568

\* Tag Name element type ID 0x45A3
TagNameId == 17827

\* TagString element type ID 0x4487
TagStringId == 17543

\* TagBinary element type ID 0x4485
TagBinaryId == 17541

\* Tracks 0x1654AE6B
TracksId == 374648427

\* TrackEntry 0xAE
TrackEntryId == 174

\* TrackName 0x536E
TrackNameId == 21358

\* TrackNumber 0xD7
TrackNumberId == 215

\* Cluster 0x1F43B675
ClusterId == 524531317

\* SimpleBlock 0xA3
SimpleBlockId == 163

SimpleBlockElement(payloadOffset, size) ==
    [id |-> SimpleBlockId, payloadOffset |-> payloadOffset, size |-> size]

\* A Python variable that holds None or an object: <<>> is None, <<x>> is x.
Some(x) == <<x>>

\* len(element) of a master element: the number of its children.  The element
\* classes are ebmlite's (amazon_kinesis_video_consumer_library/ebmlite/core.py),
\* whose MasterElement defines __len__ over its child elements and no __bool__.
MasterElementLen(element) == Len(element.children)

\* Mutant of PyNot: only None is false.
PyNot_isNone(segment_element) == segment_element = None

\* `not segment_element`.  Python's truth test of an object that defines
\* __len__ and no __bool__ is len(x) != 0, so a master element without
\* children is false, as None is.
PyNot(segment_element) ==
    \/ segment_element = None
    \/ MasterElementLen(segment_element[1]) = 0

\* segment_element = None
\* for element in fragment_dom:
\*     if element.id == 0x18538067: segment_element = element; break
RECURSIVE FindSegment(_)
FindSegment(elements) ==
    IF elements = <<>> THEN None
    ELSE IF Head(elements).id = SegmentId THEN Some(Head(elements))
    ELSE FindSegment(Tail(elements))

\* for child in element: if child.id == id: (the children visited, in order)
ChildrenWithId(element, id) == SelectSeq(element.children, LAMBDA c : c.id = id)

\* for element in elements: for child in element: if child.id == id: ...
RECURSIVE ConcatChildrenWithId(_, _)
ConcatChildrenWithId(elements, id) ==
    IF elements = <<>> THEN <<>>
    ELSE ChildrenWithId(Head(elements), id)
            \o ConcatChildrenWithId(Tail(elements), id)

----------------------------------------------------------------------------
(* get_fragment_tags                                                       *)

\* The SimpleTag elements of every Tag of every Tags element of the Segment.
CollectSimpleTags(segment_element) ==
    ConcatChildrenWithId(
        ConcatChildrenWithId(ChildrenWithId(segment_element, TagsId), TagId),
        SimpleTagId)

\* for element in simple_tag: the TagName value and the TagString/TagBinary
\* value seen last; <<tag_name, tag_value>>, each None or Some(value).
RECURSIVE ScanSimpleTag(_, _, _)
ScanSimpleTag(children, tag_name, tag_value) ==
    IF children = <<>> THEN <<tag_name, tag_value>>
    ELSE LET element == Head(children)
         IN  IF element.id = TagNameId
             THEN ScanSimpleTag(Tail(children), Some(element.value), tag_value)
             ELSE IF element.id = TagStringId \/ element.id = TagBinaryId
             THEN ScanSimpleTag(Tail(children), tag_name, Some(element.value))
             ELSE ScanSimpleTag(Tail(children), tag_name, tag_value)

\* Mutant of TagNameTruthy: the test is `tag_name is not None`.
TagNameTruthy_isNotNone(tag_name) == tag_name # None

\* `if tag_name:` is false for None and for the empty string.
TagNameTruthy(tag_name) == tag_name # None /\ tag_name[1] # ""

\* simple_tags_dict = {}
EmptyDict == [k \in {} |-> None]

\* Mutant of DictSet: a key already present keeps its value.
DictSet_keepFirst(dict, key, value) ==
    [k \in DOMAIN dict \cup {key} |-> IF k \in DOMAIN dict THEN dict[k] ELSE value]

\* simple_tags_dict[tag_name] = tag_value  (a value is None or Some(value))
DictSet(dict, key, value) ==
    [k \in DOMAIN dict \cup {key} |-> IF k = key THEN value ELSE dict[k]]

\* for simple_tag in simple_tag_elements: ... if tag_name: dict[tag_name] = tag_value
RECURSIVE BuildTagsDict(_, _)
BuildTagsDict(simple_tag_elements, simple_tags_dict) ==
    IF simple_tag_elements = <<>> THEN simple_tags_dict
    ELSE LET scanned == ScanSimpleTag(Head(simple_tag_elements).children, None, None)
             tag_name == scanned[1]
             tag_value == scanned[2]
         IN  BuildTagsDict(Tail(simple_tag_elements),
                           IF TagNameTruthy(tag_name)
                           THEN DictSet(simple_tags_dict, tag_name[1], tag_value)
                           ELSE simple_tags_dict)

\* get_fragment_tags(fragment_dom): the dict of the SimpleTags, or KeyError.
get_fragment_tags(dom) ==
    LET segment_element == FindSegment(dom)
    IN  IF PyNot(segment_element) THEN Raise("KeyError")
        ELSE Return(BuildTagsDict(CollectSimpleTags(segment_element[1]), EmptyDict))

----------------------------------------------------------------------------
(* get_simple_block_offset                                                 *)

\* for el in element: if el.id == 0xA3: append((el.payloadOffset, el.size))
ClusterBlocks(cluster) ==
    LET blocks == ChildrenWithId(cluster, SimpleBlockId)
    IN  [i \in 1..Len(blocks) |-> <<blocks[i].payloadOffset, blocks[i].size>>]

\* Mutant of FirstClusterBlocks: no break, every Cluster is scanned.
RECURSIVE FirstClusterBlocks_noBreak(_)
FirstClusterBlocks_noBreak(elements) ==
    IF elements = <<>> THEN <<>>
    ELSE IF Head(elements).id = ClusterId
    THEN ClusterBlocks(Head(elements)) \o FirstClusterBlocks_noBreak(Tail(elements))
    ELSE FirstClusterBlocks_noBreak(Tail(elements))

\* for element in segment_element:
\*     if element.id == 0x1F43B675: (collect its SimpleBlocks); break
RECURSIVE FirstClusterBlocks(_)
FirstClusterBlocks(elements) ==
    IF elements = <<>> THEN <<>>
    ELSE IF Head(elements).id = ClusterId THEN ClusterBlocks(Head(elements))
    ELSE FirstClusterBlocks(Tail(elements))

\* get_simple_block_offset(fragment_dom): the (payloadOffset, size) list, or KeyError.
get_simple_block_offset(dom) ==
    LET segment_element == FindSegment(dom)
    IN  IF PyNot(segment_element) THEN Raise("KeyError")
        ELSE Return(FirstClusterBlocks(segment_element[1].children))

----------------------------------------------------------------------------
(* get_audio_tracks                                                        *)

\* for e in el: the TrackName and TrackNumber values seen last;
\* <<track_name, track_number>>, initially <<"", -1>>.
RECURSIVE ScanTrackEntry(_, _, _)
ScanTrackEntry(children, track_name, track_number) ==
    IF children = <<>> THEN <<track_name, track_number>>
    ELSE LET e == Head(children)
         IN  IF e.id = TrackNameId
             THEN ScanTrackEntry(Tail(children), e.value, track_number)
             ELSE IF e.id = TrackNumberId
             THEN ScanTrackEntry(Tail(children), track_name, e.value)
             ELSE ScanTrackEntry(Tail(children), track_name, track_number)

\* The loop over the TrackEntry elements: <<audio_from_customer_track,
\* audio_to_customer_track>> after the entries, in order.
RECURSIVE AssignTracks(_, _)
AssignTracks(entries, tracks) ==
    IF entries = <<>> THEN tracks
    ELSE LET scanned == ScanTrackEntry(Head(entries).children, "", -1)
             track_name == scanned[1]
             track_number == scanned[2]
         IN  AssignTracks(Tail(entries),
                IF track_name = "AUDIO_FROM_CUSTOMER" THEN <<track_number, tracks[2]>>
                ELSE IF track_name = "AUDIO_TO_CUSTOMER" THEN <<tracks[1], track_number>>
                ELSE tracks)

\* Mutant of TracksNotFound: the fallback is taken only when both are missing.
TracksNotFound_both(tracks) == tracks[1] = 0 /\ tracks[2] = 0

\* if audio_from_customer_track == 0 or audio_to_customer_track == 0:
TracksNotFound(tracks) == tracks[1] = 0 \/ tracks[2] = 0

\* The fallback: audio_from_customer_track = 1; audio_to_customer_track = 2
FallbackTracks == <<1, 2>>

\* get_audio_tracks(fragment_dom): [result, logged], where logged counts the
\* log.error records of the call; KeyError without a Segment.  The track
\* numbers are integers (an unsigned integer element's value, -1, 0, 1 or 2),
\* which int() returns unchanged.
get_audio_tracks(dom) ==
    LET segment_element == FindSegment(dom)
    IN  IF PyNot(segment_element) THEN [result |-> Raise("KeyError"), logged |-> 0]
        ELSE LET entries == ConcatChildrenWithId(
                                ChildrenWithId(segment_element[1], TracksId),
                                TrackEntryId)
                 tracks == AssignTracks(entries, <<0, 0>>)
             IN  IF TracksNotFound(tracks)
                 THEN [result |-> Return(FallbackTracks), logged |-> 1]
                 ELSE [result |-> Return(tracks), logged |-> 0]

----------------------------------------------------------------------------
(* Inputs of the decoding functions.  An EBML vint of n bytes carries 7*n  *)
(* value bits: the marker bit 2^(8-n) of the first byte, the lower bits of *)
(* the first byte as the most significant value bits, then n-1 bytes,      *)
(* big-endian.                                                             *)

\* Largest offset at which a vint is placed in the buffer.
MaxOffset == 1

\* Largest number of bytes that follow a vint in a parse_vint buffer.
MaxSuffix == 1

\* Largest number of payload bytes of a SimpleBlock.
MaxPayload == 2

RECURSIVE Pow2(_)
Pow2(k) == IF k = 0 THEN 1 ELSE 2 * Pow2(k - 1)

\* The marker bit of an n-byte vint.
Marker(n) == Pow2(8 - n)

\* k copies of the byte b.
Fill(b, k) == [i \in 1..k |-> b]

\* All sequences over S of length exactly k / at most k.
RECURSIVE SeqsOfLen(_, _)
SeqsOfLen(S, k) ==
    IF k = 0 THEN {<<>>}
    ELSE {Append(s, x) : s \in SeqsOfLen(S, k - 1), x \in S}

SeqsUpTo(S, k) == UNION {SeqsOfLen(S, j) : j \in 0..k}

\* The sequences s is cut short to: every prefix but s itself.
ProperPrefixes(s) == {SubSeq(s, 1, k) : k \in 0..(Len(s) - 1)}

\* Digits with the leading zeros removed: the integer the n bytes stand for.
RECURSIVE Canonical(_)
Canonical(digits) ==
    IF digits = <<>> THEN <<>>
    ELSE IF Head(digits) = 0 THEN Canonical(Tail(digits))
    ELSE digits

\* The n value bytes of a vint: first byte below the marker, the others sampled.
PaddedValues(n) ==
    {<<f>> \o rest :
        f \in {x \in {0, 1, 5, Marker(n) - 1} : x < Marker(n)},
        rest \in SeqsOfLen({0, 255}, n - 1)}
    \cup (IF n = 2 THEN {<<0, 5>>} ELSE {})

\* The n-byte EBML encoding of the integer whose n value bytes are `padded`.
EncodeVint(padded) == <<padded[1] + Marker(Len(padded))>> \o Tail(padded)

\* Every way a vint of 1..8 bytes is laid out in a buffer: behind `off` bytes
\* that are no vint themselves, followed by up to MaxSuffix further bytes.
EncodedInputs ==
    {[data   |-> Fill(0, off) \o EncodeVint(p) \o suf,
      offset |-> off,
      given  |-> [v |-> Canonical(p), n |-> Len(p)]] :
        p \in UNION {PaddedValues(n) : n \in 1..VintMaxSize},
        off \in 0..MaxOffset,
        suf \in SeqsUpTo({255}, MaxSuffix)}

\* No vint was encoded into the buffer.
NotEncoded == [v |-> <<>>, n |-> 0]

\* Buffers that end before the vint does (the offset may be past the end), and
\* buffers starting with each possible first byte, of every length up to 8.
RawInputs ==
    UNION {{[data |-> d, offset |-> e.offset, given |-> NotEncoded] :
                d \in ProperPrefixes(e.data)} :
            e \in {x \in EncodedInputs : Len(x.data) = x.offset + x.given.n}}
    \cup
    {[data |-> Fill(0, off) \o <<b>> \o Fill(255, k), offset |-> off,
      given |-> NotEncoded] :
        b \in 0..255, k \in 0..(VintMaxSize - 1), off \in 0..MaxOffset}

\* The value bytes of the track numbers placed in SimpleBlocks.
BlockTrackValues ==
    UNION {{<<f>> \o Fill(b, n - 1) :
                f \in {x \in {0, 1, Marker(n) - 1} : x < Marker(n)},
                b \in {0, 255}} : n \in 1..VintMaxSize}

\* A SimpleBlock: track number vint, 2 timestamp bytes, 1 flags byte, payload.
FullBlocks ==
    {[data  |-> EncodeVint(p) \o hdr \o payload,
      given |-> [v |-> Canonical(p), n |-> Len(p)]] :
        p \in BlockTrackValues,
        hdr \in {<<0, 0, 0>>, <<255, 254, 128>>},
        payload \in SeqsUpTo({170, 187}, MaxPayload)}

\* Every SimpleBlock and every prefix of one (a block cut short).
BlockInputs ==
    UNION {{[data |-> d, given |-> f.given] :
                d \in (ProperPrefixes(f.data) \ {<<>>}) \cup {f.data}} :
            f \in FullBlocks}

----------------------------------------------------------------------------
(* State machine of the decoding functions.                                *)

NoResult == Return(None)

\* KvsPythonConsumerExample.__init__: the consumer before service_loop runs.
ConsumerConstructed ==
    /\ audio_from_customer = <<>>
    /\ audio_to_customer = <<>>
    /\ last_good_fragment_tags = None
    /\ current_audio_length = 0
    /\ stream_stopped = FALSE
    /\ main_pc = "start"
    /\ consumer_pc = "unstarted"
    /\ arrived = <<>>
    /\ fragment_errors = 0
    /\ propagated = ""

InitVint ==
    /\ \E in \in EncodedInputs \cup RawInputs :
        /\ data = in.data
        /\ offset = in.offset
        /\ given = in.given
    /\ fragment_dom = <<>>
    /\ pc = "ready"
    /\ called = ""
    /\ result = NoResult
    /\ diagnostics = 0
    /\ ConsumerConstructed

InitBlock ==
    /\ \E in \in BlockInputs :
        /\ data = in.data
        /\ given = in.given
    /\ offset = 0
    /\ fragment_dom = <<>>
    /\ pc = "ready"
    /\ called = ""
    /\ result = NoResult
    /\ diagnostics = 0
    /\ ConsumerConstructed

\* value, size = parse_vint(data, offset)
ParseVint ==
    /\ pc = "ready"
    /\ result' = parse_vint(data, offset)
    /\ called' = "parse_vint"
    /\ pc' = "done"
    /\ UNCHANGED <<data, offset, given, fragment_dom, diagnostics>>
    /\ UNCHANGED consumer_vars

\* track_number, data_payload = extract_simpleblock_data(data)
ExtractSimpleblockData ==
    /\ pc = "ready"
    /\ result' = extract_simpleblock_data(data)
    /\ called' = "extract_simpleblock_data"
    /\ pc' = "done"
    /\ UNCHANGED <<data, offset, given, fragment_dom, diagnostics>>
    /\ UNCHANGED consumer_vars

NextVint == ParseVint

NextBlock == ExtractSimpleblockData

SpecVint == InitVint /\ [][NextVint]_vars

SpecBlock == InitBlock /\ [][NextBlock]_vars

----------------------------------------------------------------------------
(* Fragment DOMs handed to the tree functions.                             *)

\* Largest number of SimpleTag elements under one Tags element.
MaxSimpleTags == 2

\* Largest number of TrackEntry elements under one Tracks element.
MaxTrackEntries == 2

\* Largest number of SimpleBlock elements in one Cluster.
MaxBlocks == 2

\* Elements the functions pass over: the EBML header, Info, a Cluster's Timecode.
EbmlHeader == MasterElement(440786851, <<ValueElement(17026, "matroska")>>)

InfoElement == MasterElement(357149030, <<UIntegerElement(2807729, 1000000)>>)

TimecodeElement == UIntegerElement(231, 0)

TagName(value) == ValueElement(TagNameId, value)

TagString(value) == ValueElement(TagStringId, value)

\* The value of a TagBinary is opaque bytes; a string stands for them.
TagBinary(value) == ValueElement(TagBinaryId, value)

SimpleTagSamples ==
    {MasterElement(SimpleTagId, c) : c \in {
        <<TagName("AWS_KINESISVIDEO_FRAGMENT_NUMBER"), TagString("1")>>,
        <<TagName("AWS_KINESISVIDEO_FRAGMENT_NUMBER"), TagString("2")>>,
        <<TagName("ContactId"), TagBinary("bytes")>>,
        <<TagString("2"), TagName("ContactId")>>,
        <<TagString("1")>>,
        <<TagName(""), TagString("1")>>,
        <<TagName("ContactId")>>}}

\* The ways a sequence of SimpleTags is spread over the Tag children of a Tags
\* element: all in one Tag, or cut in two Tags; other children in between.
TagsChildren(simple_tags) ==
    {<<MasterElement(TagId, simple_tags)>>}
    \cup {<<MasterElement(TagId, SubSeq(simple_tags, 1, k)),
            MasterElement(TagId, SubSeq(simple_tags, k + 1, Len(simple_tags)))>> :
            k \in 1..(Len(simple_tags) - 1)}
    \cup (IF simple_tags = <<>> THEN {<<>>} ELSE {})
    \cup (IF Len(simple_tags) = 1
          THEN {<<MasterElement(TagId, <<MasterElement(25536, <<>>)>> \o simple_tags)>>,
                <<simple_tags[1]>>}
          ELSE {})

TagsElements ==
    UNION {{MasterElement(TagsId, c) : c \in TagsChildren(st)} :
            st \in SeqsUpTo(SimpleTagSamples, MaxSimpleTags)}

TrackName(value) == ValueElement(TrackNameId, value)

TrackNumber(value) == UIntegerElement(TrackNumberId, value)

TrackEntrySamples ==
    {MasterElement(TrackEntryId, <<TrackName(name), TrackNumber(number)>>) :
        name \in {"AUDIO_FROM_CUSTOMER", "AUDIO_TO_CUSTOMER", "VIDEO"},
        number \in 0..3}
    \cup
    {MasterElement(TrackEntryId, <<TrackNumber(number), TrackName(name)>>) :
        name \in {"AUDIO_FROM_CUSTOMER", "AUDIO_TO_CUSTOMER"},
        number \in {0, 3}}
    \cup
    {MasterElement(TrackEntryId, c) : c \in {
        <<TrackName("AUDIO_FROM_CUSTOMER")>>,
        <<TrackNumber(2)>>,
        <<TrackName("audio_to_customer"), TrackNumber(3)>>}}

TracksElements ==
    {MasterElement(TracksId, entries) :
        entries \in SeqsUpTo(TrackEntrySamples, MaxTrackEntries)}

ClusterElements ==
    {MasterElement(ClusterId, <<TimecodeElement>> \o blocks) :
        blocks \in SeqsUpTo({SimpleBlockElement(64, 5), SimpleBlockElement(72, 8)},
                            MaxBlocks)}
    \cup {MasterElement(ClusterId, <<>>)}

\* One element of each kind, for the Segments that combine the sections.
OneTags == MasterElement(TagsId, <<MasterElement(TagId,
    <<MasterElement(SimpleTagId,
        <<TagName("AWS_KINESISVIDEO_MILLIS_BEHIND_NOW"), TagString("0")>>)>>)>>)

OneTracks == MasterElement(TracksId,
    <<MasterElement(TrackEntryId, <<TrackNumber(1), TrackName("AUDIO_FROM_CUSTOMER")>>),
      MasterElement(TrackEntryId, <<TrackNumber(2), TrackName("AUDIO_TO_CUSTOMER")>>)>>)

OneCluster == MasterElement(ClusterId, <<TimecodeElement, SimpleBlockElement(64, 5)>>)

\* The children of a Segment.
SegmentChildren ==
    {<<>>, <<InfoElement>>}
    \cup {<<t>> : t \in TagsElements \cup TracksElements \cup ClusterElements}
    \cup {<<InfoElement, OneTracks, OneCluster, t>> : t \in TagsElements}
    \cup {<<InfoElement, t, OneCluster, OneTags>> : t \in TracksElements}
    \cup {<<InfoElement, OneTracks, c, OneTags>> : c \in ClusterElements}
    \cup {<<c, OneCluster>> : c \in ClusterElements}
    \cup {<<OneTags, t>> : t \in {x \in TagsElements : Len(x.children) = 1}}
    \cup {<<OneTracks, t>> : t \in {x \in TracksElements : Len(x.children) = 1}}

\* The children of a second Segment of a document.
SecondSegmentChildren ==
    {<<>>, <<OneTags>>, <<OneTracks>>, <<OneCluster>>,
     <<InfoElement, OneTracks, OneCluster, OneTags>>}

\* The documents: with and without the EBML header, without a Segment, and
\* with two Segments.
FragmentDoms ==
    {<<>>, <<EbmlHeader>>, <<EbmlHeader, InfoElement>>}
    \cup {<<EbmlHeader, MasterElement(SegmentId, c)>> : c \in SegmentChildren}
    \cup {<<MasterElement(SegmentId, c)>> : c \in SecondSegmentChildren}
    \cup {<<EbmlHeader, MasterElement(SegmentId, a), MasterElement(SegmentId, b)>> :
            a \in SecondSegmentChildren \cup {<<OneTracks, OneCluster>>},
            b \in SecondSegmentChildren}

----------------------------------------------------------------------------
(* State machine of the tree functions.                                    *)

InitTree ==
    /\ fragment_dom \in FragmentDoms
    /\ data = <<>>
    /\ offset = 0
    /\ given = NotEncoded
    /\ pc = "ready"
    /\ called = ""
    /\ result = NoResult
    /\ diagnostics = 0
    /\ ConsumerConstructed

\* tags = get_fragment_tags(fragment_dom)
GetFragmentTags ==
    /\ pc = "ready"
    /\ result' = get_fragment_tags(fragment_dom)
    /\ called' = "get_fragment_tags"
    /\ pc' = "done"
    /\ UNCHANGED <<data, offset, given, fragment_dom, diagnostics>>
    /\ UNCHANGED consumer_vars

\* simple_block_elements = get_simple_block_offset(fragment_dom)
GetSimpleBlockOffset ==
    /\ pc = "ready"
    /\ result' = get_simple_block_offset(fragment_dom)
    /\ called' = "get_simple_block_offset"
    /\ pc' = "done"
    /\ UNCHANGED <<data, offset, given, fragment_dom, diagnostics>>
    /\ UNCHANGED consumer_vars

\* audio_from_customer_track, audio_to_customer_track = get_audio_tracks(fragment_dom)
GetAudioTracks ==
    /\ pc = "ready"
    /\ LET call == get_audio_tracks(fragment_dom)
       IN  /\ result' = call.result
           /\ diagnostics' = diagnostics + call.logged
    /\ called' = "get_audio_tracks"
    /\ pc' = "done"
    /\ UNCHANGED <<data, offset, given, fragment_dom>>
    /\ UNCHANGED consumer_vars

NextTree == GetFragmentTags \/ GetSimpleBlockOffset \/ GetAudioTracks

SpecTree == InitTree /\ [][NextTree]_vars

----------------------------------------------------------------------------
(* Properties of parse_vint and extract_simpleblock_data.                  *)

\* The length an EBML vint announces in its first byte b (1..255): one more
\* than the number of leading zero bits of b.
VintLengthOf(b) == CHOOSE n \in 1..8 : Pow2(8 - n) <= b /\ b < Pow2(9 - n)

ParseVintDone == pc = "done" /\ called = "parse_vint"

ExtractDone == pc = "done" /\ called = "extract_simpleblock_data"

\* C1: parse_vint applied, at any offset, to the n-byte EBML encoding of an
\* integer v that fits in 7*n bits returns exactly (v, n), for n in 1..8.
C1_VintRoundTrip ==
    (ParseVintDone /\ given.n > 0) => result = Return(<<given.v, given.n>>)

\* An 8-byte vint with all 56 value bits in use was decoded at a non-zero offset.
C1_Witness ==
    /\ ParseVintDone
    /\ given.n = 8 /\ given.v = Fill(255, 7) /\ offset > 0
    /\ result = Return(<<given.v, 8>>)

\* C2: for a block that starts with a valid vint of length L and has at least
\* L + 3 bytes, extract_simpleblock_data returns the vint's value as the track
\* number and raw[L+3:], unchanged and in order, as the payload.
C2_PayloadVerbatim ==
    (ExtractDone /\ Len(data) >= given.n + 3) =>
        /\ VintLengthOf(data[1]) = given.n
        /\ result = Return(<<given.v, SubSeq(data, given.n + 3 + 1, Len(data))>>)

\* A block with a 2-byte track number and a 2-byte payload was decoded.
C2_Witness ==
    /\ ExtractDone
    /\ given.n = 2 /\ Len(data) = 2 + 3 + 2
    /\ result.raised = "" /\ result.value[2] = <<data[6], data[7]>>

\* C3: extract_simpleblock_data fails on every buffer shorter than
\* vintLength + 3 bytes; it never returns a (trackNumber, payload) for one.
C3_TruncatedBlockFails ==
    (ExtractDone /\ Len(data) < VintLengthOf(data[1]) + 3) => result.raised # ""

\* C4: parse_vint fails with the out-of-range error (Python's IndexError)
\* whenever fewer than byteLength bytes remain in the buffer from offset, also
\* when offset is at or past the end of the buffer, and it never returns a
\* value computed from fewer than byteLength bytes.
C4_OutOfRange ==
    ParseVintDone =>
        /\ offset >= Len(data) => result.raised = "IndexError"
        /\ (/\ offset < Len(data)
            /\ data[offset + 1] # 0
            /\ Len(data) - offset < VintLengthOf(data[offset + 1]))
                => result.raised = "IndexError"
        /\ result.raised = "" => Len(data) - offset >= result.value[2]

\* A 4-byte vint of which only 3 bytes are in the buffer was refused.
C4_Witness ==
    /\ ParseVintDone
    /\ offset < Len(data) /\ data[offset + 1] # 0
    /\ VintLengthOf(data[offset + 1]) = 4 /\ Len(data) - offset = 3
    /\ result.raised = "IndexError"

\* C5: parse_vint fails with the invalid-vint error (ValueError) exactly when
\* the first byte is 0x00; for every first byte in 0x01..0xFF the length it
\* determines is 1 plus the number of leading zero bits of that byte.
C5_InvalidVarint ==
    (ParseVintDone /\ offset < Len(data)) =>
        LET first == data[offset + 1]
        IN  /\ result.raised = "ValueError" <=> first = 0
            /\ first # 0 =>
                \/ /\ result.raised = ""
                   /\ result.value[2] = VintLengthOf(first)
                   /\ result.value[2] \in 1..8
                \/ /\ result.raised = "IndexError"
                   /\ Len(data) - offset < VintLengthOf(first)

\* A first byte of 0x00 followed by 7 more bytes was refused as no vint.
C5_Witness ==
    /\ ParseVintDone
    /\ offset < Len(data) /\ data[offset + 1] = 0 /\ Len(data) - offset = 8
    /\ result.raised = "ValueError"

----------------------------------------------------------------------------
(* Properties of the tree functions, stated over the document itself.      *)

Range(seq) == {seq[i] : i \in 1..Len(seq)}

\* The top level of the document holds an element with the Segment ID.
HasSegment(dom) == \E i \in 1..Len(dom) : dom[i].id = SegmentId

\* The first element with the Segment ID, in tree order.
FirstSegment(dom) ==
    dom[CHOOSE i \in 1..Len(dom) :
            /\ dom[i].id = SegmentId
            /\ \A j \in 1..(i - 1) : dom[j].id # SegmentId]

\* The children of `element` that carry `id`.
Under(element, id) == {c \in Range(element.children) : c.id = id}

\* The TrackEntry elements of the Tracks section under the Segment.
TrackEntriesOf(segment) == UNION {Under(t, TrackEntryId) : t \in Under(segment, TracksId)}

\* The entry is named exactly `name`.
EntryNamed(entry, name) == \E c \in Under(entry, TrackNameId) : c.value = name

\* The TrackNumbers the entry carries.
EntryNumbers(entry) == {c.value : c \in Under(entry, TrackNumberId)}

TreeDone(function) == pc = "done" /\ called = function

\* C6: when the Tracks section holds a TrackEntry named "AUDIO_FROM_CUSTOMER"
\* with TrackNumber a and one named "AUDIO_TO_CUSTOMER" with TrackNumber b
\* (each name on one entry), get_audio_tracks returns (a, b) for any a and b,
\* in any order of the entries and of their children, with no fallback and
\* no diagnostic.
C6_NamedTracksReturned ==
    (TreeDone("get_audio_tracks") /\ HasSegment(fragment_dom)) =>
        LET entries == TrackEntriesOf(FirstSegment(fragment_dom))
            from == {e \in entries : EntryNamed(e, "AUDIO_FROM_CUSTOMER")}
            to == {e \in entries : EntryNamed(e, "AUDIO_TO_CUSTOMER")}
        IN  (Cardinality(from) = 1 /\ Cardinality(to) = 1) =>
                \A ef \in from, et \in to :
                    \A a \in EntryNumbers(ef), b \in EntryNumbers(et) :
                        /\ result = Return(<<a, b>>)
                        /\ diagnostics = 0

\* What the code does for C6: the same, for track numbers other than 0.
NamedTracksReturnedNonZero ==
    (TreeDone("get_audio_tracks") /\ HasSegment(fragment_dom)) =>
        LET entries == TrackEntriesOf(FirstSegment(fragment_dom))
            from == {e \in entries : EntryNamed(e, "AUDIO_FROM_CUSTOMER")}
            to == {e \in entries : EntryNamed(e, "AUDIO_TO_CUSTOMER")}
        IN  (Cardinality(from) = 1 /\ Cardinality(to) = 1) =>
                \A ef \in from, et \in to :
                    \A a \in EntryNumbers(ef) \ {0}, b \in EntryNumbers(et) \ {0} :
                        /\ result = Return(<<a, b>>)
                        /\ diagnostics = 0

\* One of the two role names is on no TrackEntry of the Segment (which is the
\* case when the Segment has no Tracks element).
RoleLookupFails(segment) ==
    \/ ~\E e \in TrackEntriesOf(segment) : EntryNamed(e, "AUDIO_FROM_CUSTOMER")
    \/ ~\E e \in TrackEntriesOf(segment) : EntryNamed(e, "AUDIO_TO_CUSTOMER")

\* C7: on a tree that has a Segment, whenever one of the two role-name
\* lookups fails, get_audio_tracks does not fail: it emits exactly one
\* diagnostic and returns the fallback identifiers (1, 2).
C7_FallbackOnFailedLookup ==
    (/\ TreeDone("get_audio_tracks")
     /\ HasSegment(fragment_dom)
     /\ RoleLookupFails(FirstSegment(fragment_dom)))
        => (result = Return(<<1, 2>>) /\ diagnostics = 1)

\* What the code does for C7: the same, on a Segment that has children.
FallbackOnFailedLookupNonEmpty ==
    (/\ TreeDone("get_audio_tracks")
     /\ HasSegment(fragment_dom)
     /\ FirstSegment(fragment_dom).children # <<>>
     /\ RoleLookupFails(FirstSegment(fragment_dom)))
        => (result = Return(<<1, 2>>) /\ diagnostics = 1)

\* The function that was called, applied to the document `dom`.
CallOn(function, dom) ==
    CASE function = "get_fragment_tags" -> get_fragment_tags(dom)
      [] function = "get_simple_block_offset" -> get_simple_block_offset(dom)
      [] function = "get_audio_tracks" -> get_audio_tracks(dom).result

TreeFunctions == {"get_fragment_tags", "get_simple_block_offset", "get_audio_tracks"}

\* C8: each of get_fragment_tags, get_simple_block_offset and
\* get_audio_tracks fails with the missing-Segment error (KeyError) if and only
\* if the top level of the tree holds no element with the Segment ID; of
\* several Segments only the first one is used.
C8_MissingSegmentIff ==
    (pc = "done" /\ called \in TreeFunctions) =>
        /\ result.raised = "KeyError" <=> ~HasSegment(fragment_dom)
        /\ HasSegment(fragment_dom) =>
                result = CallOn(called, <<FirstSegment(fragment_dom)>>)

\* What the code does for C8: KeyError iff there is no Segment or the first
\* Segment has no children; of several Segments only the first one is used.
MissingSegmentOrEmpty ==
    (pc = "done" /\ called \in TreeFunctions) =>
        /\ result.raised = "KeyError" <=>
                (\/ ~HasSegment(fragment_dom)
                 \/ FirstSegment(fragment_dom).children = <<>>)
        /\ HasSegment(fragment_dom) =>
                result = CallOn(called, <<FirstSegment(fragment_dom)>>)

\* C9: for a tree with a Segment whose children include no Tags element
\* (also a Segment with no children at all), get_fragment_tags returns an
\* empty mapping and raises no error.
C9_NoTagsEmptyMapping ==
    (/\ TreeDone("get_fragment_tags")
     /\ HasSegment(fragment_dom)
     /\ Under(FirstSegment(fragment_dom), TagsId) = {})
        => result = Return(EmptyDict)

\* What the code does for C9: the same, on a Segment that has children.
NoTagsEmptyMappingNonEmpty ==
    (/\ TreeDone("get_fragment_tags")
     /\ HasSegment(fragment_dom)
     /\ FirstSegment(fragment_dom).children # <<>>
     /\ Under(FirstSegment(fragment_dom), TagsId) = {})
        => result = Return(EmptyDict)

\* The places <<i, j, k>> of the SimpleTags of the Segment: child k of the Tag
\* that is child j of the Tags element that is child i of the Segment.
SimpleTagPlaces(segment) ==
    LET n == 1 + MaxSimpleTags + 3
    IN  {p \in (1..n) \X (1..n) \X (1..n) :
            /\ p[1] <= Len(segment.children)
            /\ segment.children[p[1]].id = TagsId
            /\ p[2] <= Len(segment.children[p[1]].children)
            /\ segment.children[p[1]].children[p[2]].id = TagId
            /\ p[3] <= Len(segment.children[p[1]].children[p[2]].children)
            /\ segment.children[p[1]].children[p[2]].children[p[3]].id = SimpleTagId}

SimpleTagAt(segment, p) == segment.children[p[1]].children[p[2]].children[p[3]]

\* p comes before q in tree order.
Before(p, q) ==
    \/ p[1] < q[1]
    \/ p[1] = q[1] /\ p[2] < q[2]
    \/ p[1] = q[1] /\ p[2] = q[2] /\ p[3] < q[3]

\* The last child of the SimpleTag with one of the ids, as None or Some(value).
LastValue(simple_tag, ids) ==
    LET at == {i \in 1..Len(simple_tag.children) : simple_tag.children[i].id \in ids}
    IN  IF at = {} THEN None
        ELSE Some(simple_tag.children[CHOOSE i \in at : \A j \in at : j <= i].value)

\* The mapping C10 describes: every SimpleTag with a TagName child sets
\* mapping[TagName] to its value, in tree order.
ExpectedTags(segment, HasName(_)) ==
    LET places == {p \in SimpleTagPlaces(segment) :
                        HasName(LastValue(SimpleTagAt(segment, p), {TagNameId}))}
        NameAt(p) == LastValue(SimpleTagAt(segment, p), {TagNameId})[1]
        LastPlace(name) ==
            CHOOSE p \in places :
                /\ NameAt(p) = name
                /\ \A q \in places : NameAt(q) = name => (q = p \/ Before(q, p))
    IN  [name \in {NameAt(p) : p \in places} |->
            LastValue(SimpleTagAt(segment, LastPlace(name)), {TagStringId, TagBinaryId})]

HasTagNameChild(name) == name # None

HasNonEmptyTagName(name) == name # None /\ name[1] # ""

\* C10: the mapping get_fragment_tags returns is the result of visiting every
\* SimpleTag under every Tag under the Segment's Tags in tree order and
\* setting mapping[TagName] to its TagString/TagBinary value for each SimpleTag
\* that has a TagName child; of two SimpleTags with one name the later wins.
C10_TagsMapping ==
    (TreeDone("get_fragment_tags") /\ result.raised = "") =>
        result.value = ExpectedTags(FirstSegment(fragment_dom), HasTagNameChild)

\* What the code does for C10: a SimpleTag whose TagName is the empty string
\* sets no entry either.
TagsMappingNonEmptyNames ==
    (TreeDone("get_fragment_tags") /\ result.raised = "") =>
        result.value = ExpectedTags(FirstSegment(fragment_dom), HasNonEmptyTagName)

----------------------------------------------------------------------------
(* Properties of get_simple_block_offset.                                  *)

\* The positions of the children of `element` that carry `id`.
PlacesUnder(element, id) ==
    {k \in 1..Len(element.children) : element.children[k].id = id}

\* The i-th child of `element`, in tree order, among those that carry `id`.
NthUnder(element, id, i) ==
    element.children[CHOOSE k \in PlacesUnder(element, id) :
        Cardinality({j \in PlacesUnder(element, id) : j <= k}) = i]

\* The (payloadOffset, size) pairs C11 describes: those of the SimpleBlock
\* children of the first Cluster child of the Segment, in tree order; none
\* when the Segment has no Cluster.
ExpectedBlockRefs(segment) ==
    IF PlacesUnder(segment, ClusterId) = {} THEN <<>>
    ELSE LET cluster == NthUnder(segment, ClusterId, 1)
         IN  [i \in 1..Cardinality(PlacesUnder(cluster, SimpleBlockId)) |->
                <<NthUnder(cluster, SimpleBlockId, i).payloadOffset,
                  NthUnder(cluster, SimpleBlockId, i).size>>]

\* C11: get_simple_block_offset returns exactly the (payloadOffset, size)
\* pairs of the SimpleBlock children of the first Cluster that is a direct
\* child of the Segment, in tree order, one per block and none of a later
\* Cluster; without a Cluster, or without a SimpleBlock in the first Cluster,
\* the result is the empty sequence and no error.
C11_FirstClusterBlocks ==
    (TreeDone("get_simple_block_offset") /\ HasSegment(fragment_dom)) =>
        result = Return(ExpectedBlockRefs(FirstSegment(fragment_dom)))

\* What the code does for C11: the same, on a Segment that has children.
FirstClusterBlocksNonEmpty ==
    (/\ TreeDone("get_simple_block_offset")
     /\ HasSegment(fragment_dom)
     /\ FirstSegment(fragment_dom).children # <<>>)
        => result = Return(ExpectedBlockRefs(FirstSegment(fragment_dom)))

----------------------------------------------------------------------------
(* KvsPythonConsumerExample.on_fragment_arrived.  `self` is the record of  *)
(* the fields the callback reads and writes.                               *)

\* fragment_bytes[start:stop], Python's slice with 0 <= start <= stop: the stop
\* is clamped to the length, and the slice is empty when start is at or past it.
SliceRange(bytes, start, stop) ==
    LET end == IF stop < Len(bytes) THEN stop ELSE Len(bytes)
    IN  IF start >= end THEN <<>> ELSE SubSeq(bytes, start + 1, end)

\* The unbounded integer (base-256 digits) that equals the small integer n >= 0.
RECURSIVE DigitsOf(_)
DigitsOf(n) == IF n = 0 THEN <<>> ELSE Append(DigitsOf(n \div 256), n % 256)

\* track_number == audio_from_customer_track: an integer decoded by parse_vint
\* against an integer returned by get_audio_tracks (which may be -1).
PyIntEq(track_number, track) == track >= 0 /\ track_number = DigitsOf(track)

\* tags[key]: KeyError when the key is absent.
DictGet(dict, key) ==
    IF key \in DOMAIN dict THEN Return(dict[key]) ELSE Raise("KeyError")

\* The tag values float() accepts, of those the fragments below carry.
FloatLiterals == {"0", "250", "1700000000.25"}

\* float(value) of a tag value: TypeError for None, ValueError for a string
\* that is no number.
PyFloat(value) ==
    IF value = None THEN Raise("TypeError")
    ELSE IF value[1] \in FloatLiterals THEN Return(value[1])
    ELSE Raise("ValueError")

\* float(self.last_good_fragment_tags[key])
FloatOfTag(tags, key) ==
    LET looked_up == DictGet(tags, key)
    IN  IF looked_up.raised # "" THEN looked_up ELSE PyFloat(looked_up.value)

\* The reads of the fragment tags, in the order of the code: the continuation
\* token, then the three timings as floats.  The first exception ends them.
ReadFragmentTiming(tags) ==
    LET token == DictGet(tags, "AWS_KINESISVIDEO_CONTINUATION_TOKEN")
        millis == FloatOfTag(tags, "AWS_KINESISVIDEO_MILLIS_BEHIND_NOW")
        producer == FloatOfTag(tags, "AWS_KINESISVIDEO_PRODUCER_TIMESTAMP")
        server == FloatOfTag(tags, "AWS_KINESISVIDEO_SERVER_TIMESTAMP")
    IN  IF token.raised # "" THEN token
        ELSE IF millis.raised # "" THEN millis
        ELSE IF producer.raised # "" THEN producer
        ELSE IF server.raised # "" THEN server
        ELSE Return(None)

\* for offset, size in simple_block_elements: extract the block, append its
\* payload to the accumulator of its track, add its duration.  An exception
\* of extract_simpleblock_data ends the loop; what was appended stays.
RECURSIVE AppendBlocks(_, _, _, _)
AppendBlocks(fragment_bytes, simple_block_elements, tracks, self) ==
    IF simple_block_elements = <<>> THEN [self |-> self, raised |-> ""]
    ELSE LET block_offset == Head(simple_block_elements)[1]
             size == Head(simple_block_elements)[2]
             block == extract_simpleblock_data(
                          SliceRange(fragment_bytes, block_offset, block_offset + size))
         IN  IF block.raised # "" THEN [self |-> self, raised |-> block.raised]
             ELSE LET track_number == block.value[1]
                      data_payload == block.value[2]
                      appended ==
                          IF PyIntEq(track_number, tracks[1])
                          THEN [self EXCEPT !.audio_from_customer = @ \o data_payload]
                          ELSE IF PyIntEq(track_number, tracks[2])
                          THEN [self EXCEPT !.audio_to_customer = @ \o data_payload]
                          ELSE self
                  IN  AppendBlocks(fragment_bytes, Tail(simple_block_elements), tracks,
                          [appended EXCEPT !.current_audio_length = @ + size])

\* The body of the try block of on_fragment_arrived: [self, raised], the
\* fields after it and the exception that ended it ("" when none did).
FragmentArrivedBody(self, fragment_bytes, dom) ==
    LET tags == get_fragment_tags(dom)
    IN  IF tags.raised # "" THEN [self |-> self, raised |-> tags.raised]
        ELSE LET tagged == [self EXCEPT !.last_good_fragment_tags = Some(tags.value)]
                 timing == ReadFragmentTiming(tags.value)
                 simple_block_elements == get_simple_block_offset(dom)
                 tracks == get_audio_tracks(dom).result
             IN  IF timing.raised # "" THEN [self |-> tagged, raised |-> timing.raised]
                 ELSE IF simple_block_elements.raised # ""
                 THEN [self |-> tagged, raised |-> simple_block_elements.raised]
                 ELSE IF tracks.raised # "" THEN [self |-> tagged, raised |-> tracks.raised]
                 ELSE AppendBlocks(fragment_bytes, simple_block_elements.value,
                                   tracks.value, tagged)

\* The exception classes the functions above raise; each derives from Exception.
ExceptionClasses == {"KeyError", "TypeError", "ValueError", "IndexError"}

\* on_fragment_arrived(fragment_bytes, fragment_dom): the try block, and
\* `except Exception as err: log.error(...)`.  [self, logged, propagated]:
\* the fields after the call, the number of error records logged, and the
\* exception that leaves the callback ("" when none does).
on_fragment_arrived(self, fragment_bytes, dom) ==
    LET body == FragmentArrivedBody(self, fragment_bytes, dom)
    IN  IF body.raised = "" THEN [self |-> body.self, logged |-> 0, propagated |-> ""]
        ELSE IF body.raised \in ExceptionClasses
        THEN [self |-> body.self, logged |-> 1, propagated |-> ""]
        ELSE [self |-> body.self, logged |-> 0, propagated |-> body.raised]

----------------------------------------------------------------------------
(* Fragments delivered to the consumer.  A fragment is its raw bytes and   *)
(* its parsed tree; each SimpleBlock element of the tree points at its     *)
(* block in the bytes.  `located` records how the blocks of the first      *)
(* Cluster were built.                                                     *)

\* Largest number of fragments delivered before the stream ends.
MaxFragments == 2

\* A SimpleBlock with its whole header: the track number as a vint, a 2-byte
\* timestamp, the flags byte, then the payload.
CompleteBlock(vint, track, payload) ==
    [raw |-> vint \o <<0, 0, 128>> \o payload,
     track |-> track, payload |-> payload, complete |-> TRUE]

\* Bytes that are no whole SimpleBlock.
BrokenBlock(raw) == [raw |-> raw, track |-> -1, payload |-> <<>>, complete |-> FALSE]

FromBlock == CompleteBlock(<<129>>, 1, <<170, 171>>)

ToBlock == CompleteBlock(<<130>>, 2, <<187>>)

OtherBlock == CompleteBlock(<<131>>, 3, <<204>>)

\* Track 1 again, as a vint of two bytes.
WideBlock == CompleteBlock(<<64, 1>>, 1, <<221>>)

\* A first byte of 0 starts no vint.
InvalidVintBlock == BrokenBlock(<<0, 0, 0, 128, 238>>)

\* The block ends inside its two-byte track number.
CutVintBlock == BrokenBlock(<<64>>)

\* The block ends inside its timestamp.
ShortBlock == BrokenBlock(<<129, 0>>)

\* The bytes of the SimpleBlock elements: id 0xA3, a one-byte size, the block.
RECURSIVE BlockBytes(_)
BlockBytes(blocks) ==
    IF blocks = <<>> THEN <<>>
    ELSE <<SimpleBlockId, 128 + Len(Head(blocks).raw)>> \o Head(blocks).raw
            \o BlockBytes(Tail(blocks))

\* The SimpleBlock elements of blocks laid out from byte `base` on.
RECURSIVE LayoutBlocks(_, _)
LayoutBlocks(blocks, base) ==
    IF blocks = <<>> THEN <<>>
    ELSE <<SimpleBlockElement(base + 2, Len(Head(blocks).raw))>>
            \o LayoutBlocks(Tail(blocks), base + 2 + Len(Head(blocks).raw))

\* The Cluster elements of clusters laid out from byte `base` on.
RECURSIVE LayoutClusters(_, _)
LayoutClusters(clusters, base) ==
    IF clusters = <<>> THEN <<>>
    ELSE <<MasterElement(ClusterId, <<TimecodeElement>> \o LayoutBlocks(Head(clusters), base))>>
            \o LayoutClusters(Tail(clusters), base + Len(BlockBytes(Head(clusters))))

RECURSIVE ClusterBytes(_)
ClusterBytes(clusters) ==
    IF clusters = <<>> THEN <<>>
    ELSE BlockBytes(Head(clusters)) \o ClusterBytes(Tail(clusters))

\* A fragment whose Segment holds `before`, the clusters, then `after`; the
\* bytes in front of the blocks stand for the elements that are not sliced,
\* and the last `cut` bytes are missing.
AudioFragment(before, clusters, after, cut) ==
    LET front == Fill(26, 4)
        bytes == front \o ClusterBytes(clusters)
    IN  [fragment_bytes |-> SubSeq(bytes, 1, Len(bytes) - cut),
         fragment_dom |-> <<EbmlHeader,
                            MasterElement(SegmentId,
                                before \o LayoutClusters(clusters, Len(front)) \o after)>>,
         located |-> IF clusters = <<>> THEN <<>> ELSE Head(clusters)]

KvsTag(name, value) == MasterElement(SimpleTagId, <<TagName(name), TagString(value)>>)

\* The tags Kinesis Video Streams puts on a fragment.
KvsTags(millis_behind_now) ==
    MasterElement(TagsId, <<MasterElement(TagId,
        <<KvsTag("AWS_KINESISVIDEO_FRAGMENT_NUMBER", "1"),
          KvsTag("AWS_KINESISVIDEO_SERVER_TIMESTAMP", "1700000000.25"),
          KvsTag("AWS_KINESISVIDEO_PRODUCER_TIMESTAMP", "1700000000.25"),
          KvsTag("AWS_KINESISVIDEO_MILLIS_BEHIND_NOW", millis_behind_now),
          KvsTag("AWS_KINESISVIDEO_CONTINUATION_TOKEN", "1")>>)>>)

\* Tags of another producer: none of the AWS_KINESISVIDEO names.
ForeignTags ==
    MasterElement(TagsId, <<MasterElement(TagId, <<KvsTag("ContactId", "1")>>)>>)

TracksOf(from, to) ==
    MasterElement(TracksId,
        <<MasterElement(TrackEntryId, <<TrackNumber(from), TrackName("AUDIO_FROM_CUSTOMER")>>),
          MasterElement(TrackEntryId, <<TrackNumber(to), TrackName("AUDIO_TO_CUSTOMER")>>)>>)

\* The fragments a stream delivers.
Fragments ==
    {AudioFragment(<<InfoElement, TracksOf(1, 2)>>, <<<<FromBlock, ToBlock>>>>, <<KvsTags("0")>>, 0),
     AudioFragment(<<InfoElement, TracksOf(1, 2)>>, <<<<ToBlock, OtherBlock, WideBlock>>>>,
                   <<KvsTags("250")>>, 0),
     AudioFragment(<<InfoElement, TracksOf(2, 1)>>, <<<<FromBlock, ToBlock>>>>, <<KvsTags("0")>>, 0),
     AudioFragment(<<InfoElement>>, <<<<ToBlock, FromBlock>>>>, <<KvsTags("0")>>, 0),
     AudioFragment(<<InfoElement, TracksOf(1, 1)>>, <<<<FromBlock, ToBlock>>>>, <<KvsTags("0")>>, 0),
     AudioFragment(<<InfoElement, TracksOf(1, 2)>>, <<<<>>>>, <<KvsTags("0")>>, 0),
     AudioFragment(<<InfoElement, TracksOf(1, 2)>>, <<<<FromBlock>>, <<ToBlock>>>>,
                   <<KvsTags("0")>>, 0),
     AudioFragment(<<KvsTags("0"), TracksOf(1, 2)>>, <<>>, <<>>, 0),
     AudioFragment(<<InfoElement, TracksOf(1, 2)>>, <<<<FromBlock, ToBlock>>>>, <<>>, 0),
     AudioFragment(<<InfoElement, TracksOf(1, 2)>>, <<<<ToBlock>>>>, <<ForeignTags>>, 0),
     AudioFragment(<<InfoElement, TracksOf(1, 2)>>, <<<<ToBlock>>>>, <<KvsTags("n/a")>>, 0),
     AudioFragment(<<InfoElement, TracksOf(1, 2)>>, <<<<FromBlock, InvalidVintBlock, ToBlock>>>>,
                   <<KvsTags("0")>>, 0),
     AudioFragment(<<InfoElement, TracksOf(1, 2)>>, <<<<CutVintBlock, FromBlock>>>>,
                   <<KvsTags("0")>>, 0),
     AudioFragment(<<InfoElement, TracksOf(1, 2)>>, <<<<ShortBlock, ToBlock>>>>,
                   <<KvsTags("0")>>, 0),
     AudioFragment(<<InfoElement, TracksOf(1, 2)>>, <<<<FromBlock, ToBlock>>>>, <<KvsTags("0")>>, 3),
     AudioFragment(<<InfoElement, TracksOf(1, 2)>>, <<<<FromBlock, ToBlock>>>>, <<KvsTags("0")>>, 5),
     AudioFragment(<<>>, <<>>, <<>>, 0),
     [fragment_bytes |-> Fill(26, 4), fragment_dom |-> <<EbmlHeader>>, located |-> <<>>]}

----------------------------------------------------------------------------
(* State machine of the consumer example: the main thread in service_loop  *)
(* and the KvsConsumerLibrary thread that calls the three callbacks.       *)

\* The fields of the consumer that on_fragment_arrived reads and writes.
Self ==
    [audio_from_customer |-> audio_from_customer,
     audio_to_customer |-> audio_to_customer,
     last_good_fragment_tags |-> last_good_fragment_tags,
     current_audio_length |-> current_audio_length]

InitConsumer ==
    /\ data = <<>>
    /\ offset = 0
    /\ given = NotEncoded
    /\ fragment_dom = <<>>
    /\ pc = "ready"
    /\ called = ""
    /\ result = NoResult
    /\ diagnostics = 0
    /\ ConsumerConstructed

\* service_loop up to my_stream01_consumer.start(): the consumer thread runs.
ServiceLoopStart ==
    /\ main_pc = "start"
    /\ main_pc' = "loop"
    /\ consumer_pc' = "running"
    /\ UNCHANGED <<audio_from_customer, audio_to_customer, last_good_fragment_tags,
                   current_audio_length, stream_stopped, arrived, fragment_errors,
                   propagated>>
    /\ UNCHANGED call_vars

\* while not self.stream_stopped:
ServiceLoopTest ==
    /\ main_pc = "loop"
    /\ main_pc' = IF ~stream_stopped THEN "sleep" ELSE "join"
    /\ UNCHANGED <<audio_from_customer, audio_to_customer, last_good_fragment_tags,
                   current_audio_length, stream_stopped, consumer_pc, arrived,
                   fragment_errors, propagated>>
    /\ UNCHANGED call_vars

\* The loop body: log.info(...); time.sleep(2)
ServiceLoopSleep ==
    /\ main_pc = "sleep"
    /\ main_pc' = "loop"
    /\ UNCHANGED <<audio_from_customer, audio_to_customer, last_good_fragment_tags,
                   current_audio_length, stream_stopped, consumer_pc, arrived,
                   fragment_errors, propagated>>
    /\ UNCHANGED call_vars

\* my_stream01_consumer.join() returns when the thread has ended; print; return.
ServiceLoopJoin ==
    /\ main_pc = "join"
    /\ consumer_pc \in {"completed", "failed"}
    /\ main_pc' = "returned"
    /\ UNCHANGED <<audio_from_customer, audio_to_customer, last_good_fragment_tags,
                   current_audio_length, stream_stopped, consumer_pc, arrived,
                   fragment_errors, propagated>>
    /\ UNCHANGED call_vars

\* The consumer thread delivers a fragment: on_fragment_arrived.
OnFragmentArrived ==
    /\ consumer_pc = "running"
    /\ Len(arrived) < MaxFragments
    /\ \E fragment \in Fragments :
        LET call == on_fragment_arrived(Self, fragment.fragment_bytes, fragment.fragment_dom)
        IN  /\ audio_from_customer' = call.self.audio_from_customer
            /\ audio_to_customer' = call.self.audio_to_customer
            /\ last_good_fragment_tags' = call.self.last_good_fragment_tags
            /\ current_audio_length' = call.self.current_audio_length
            /\ fragment_errors' = fragment_errors + call.logged
            /\ propagated' = call.propagated
            /\ arrived' = Append(arrived, fragment)
    /\ UNCHANGED <<stream_stopped, main_pc, consumer_pc>>
    /\ UNCHANGED call_vars

\* The stream has no more fragments: on_stream_read_complete prints, saves
\* the audio files and sets stream_stopped; the thread ends.
OnStreamReadComplete ==
    /\ consumer_pc = "running"
    /\ stream_stopped' = TRUE
    /\ consumer_pc' = "completed"
    /\ UNCHANGED <<audio_from_customer, audio_to_customer, last_good_fragment_tags,
                   current_audio_length, main_pc, arrived, fragment_errors, propagated>>
    /\ UNCHANGED call_vars

\* Reading the stream raised: on_stream_read_exception prints; the thread ends.
OnStreamReadException ==
    /\ consumer_pc = "running"
    /\ consumer_pc' = "failed"
    /\ UNCHANGED <<audio_from_customer, audio_to_customer, last_good_fragment_tags,
                   current_audio_length, stream_stopped, main_pc, arrived,
                   fragment_errors, propagated>>
    /\ UNCHANGED call_vars

\* The steps of the main thread.
ServiceLoop == ServiceLoopStart \/ ServiceLoopTest \/ ServiceLoopSleep \/ ServiceLoopJoin

NextConsumer ==
    \/ ServiceLoopStart
    \/ ServiceLoopTest
    \/ ServiceLoopSleep
    \/ ServiceLoopJoin
    \/ OnFragmentArrived
    \/ OnStreamReadComplete
    \/ OnStreamReadException

SpecConsumer == InitConsumer /\ [][NextConsumer]_vars

\* The main thread is scheduled: a step of service_loop that can be taken is
\* taken.  Nothing makes the stream end.
FairSpecConsumer == SpecConsumer /\ WF_vars(ServiceLoop)

----------------------------------------------------------------------------
(* Properties of the consumer example.                                     *)

\* The fragment has a Segment, and every SimpleBlock located in it lies
\* within the fragment's bytes and was built with its whole header.
WellFormed(fragment) ==
    /\ HasSegment(fragment.fragment_dom)
    /\ \A i \in 1..Len(fragment.located) : fragment.located[i].complete
    /\ LET refs == ExpectedBlockRefs(FirstSegment(fragment.fragment_dom))
       IN  \A i \in 1..Len(refs) : refs[i][1] + refs[i][2] <= Len(fragment.fragment_bytes)

\* The payloads of the blocks whose track number is in `wanted`, in block order.
RECURSIVE PayloadsOfTracks(_, _)
PayloadsOfTracks(blocks, wanted) ==
    IF blocks = <<>> THEN <<>>
    ELSE (IF Head(blocks).track \in wanted THEN Head(blocks).payload ELSE <<>>)
            \o PayloadsOfTracks(Tail(blocks), wanted)

\* The track ids get_audio_tracks resolves for the fragment.
ResolvedTracks(fragment) == get_audio_tracks(fragment.fragment_dom).result.value

\* What a well-formed fragment adds to audio_from_customer: the payloads of
\* the located blocks of the resolved from-customer track.
ExpectedFromCustomer(fragment) ==
    IF fragment.located = <<>> THEN <<>>
    ELSE PayloadsOfTracks(fragment.located, {ResolvedTracks(fragment)[1]})

\* What it adds to audio_to_customer: the payloads of the located blocks of
\* the resolved to-customer track that did not go to the other accumulator.
ExpectedToCustomer(fragment) ==
    IF fragment.located = <<>> THEN <<>>
    ELSE PayloadsOfTracks(fragment.located,
            {ResolvedTracks(fragment)[2]} \ {ResolvedTracks(fragment)[1]})

\* The concatenation over the fragments, in arrival order.
RECURSIVE ExpectedAudio(_, _)
ExpectedAudio(fragments, role) ==
    IF fragments = <<>> THEN <<>>
    ELSE (IF role = "from" THEN ExpectedFromCustomer(Head(fragments))
          ELSE ExpectedToCustomer(Head(fragments)))
            \o ExpectedAudio(Tail(fragments), role)

\* C12: after any sequence of on_fragment_arrived calls on well-formed
\* fragments (a Segment, only complete SimpleBlocks), audio_from_customer is
\* the concatenation, in arrival order and block order, of the payloads of
\* the located blocks of each fragment's resolved from-customer track, and
\* audio_to_customer likewise for the to-customer track; no payload goes to
\* both, and a block of another track goes to neither.
C12_AccumulatorsPerRole ==
    (\A i \in 1..Len(arrived) : WellFormed(arrived[i])) =>
        /\ audio_from_customer = ExpectedAudio(arrived, "from")
        /\ audio_to_customer = ExpectedAudio(arrived, "to")

\* The fragment carries the continuation token and the three timings of
\* Kinesis Video Streams, the timings as numbers.
CarriesKvsTimings(fragment) ==
    LET tags == get_fragment_tags(fragment.fragment_dom)
    IN  tags.raised # "" \/ ReadFragmentTiming(tags.value).raised = ""

\* What the code does for C12: the same, when every fragment also carries
\* the Kinesis Video Streams tags the callback reads first.
AccumulatorsPerRoleKvsTagged ==
    (\A i \in 1..Len(arrived) : WellFormed(arrived[i]) /\ CarriesKvsTimings(arrived[i])) =>
        /\ audio_from_customer = ExpectedAudio(arrived, "from")
        /\ audio_to_customer = ExpectedAudio(arrived, "to")

\* Some audio has reached both accumulators.
BothAccumulatorsFilled ==
    ~(audio_from_customer # <<>> /\ audio_to_customer # <<>> /\ Len(arrived) = MaxFragments
      /\ \A i \in 1..Len(arrived) : WellFormed(arrived[i]) /\ CarriesKvsTimings(arrived[i]))

\* The step is a call of on_fragment_arrived.
FragmentArrives == Len(arrived') = Len(arrived) + 1

\* The step is a call of on_fragment_arrived whose try block raised.
FragmentFails == FragmentArrives /\ fragment_errors' = fragment_errors + 1

\* C13: a failure while processing a fragment is confined to that fragment:
\* on_fragment_arrived lets no exception out, a call that fails leaves
\* audio_from_customer and audio_to_customer as they were before it, and a
\* well-formed fragment is processed, its payloads appended, whatever
\* arrived before it.
C13_FailureConfined ==
    /\ [](propagated = "")
    /\ [][FragmentFails =>
            /\ audio_from_customer' = audio_from_customer
            /\ audio_to_customer' = audio_to_customer]_vars
    /\ [][(FragmentArrives /\ WellFormed(arrived'[Len(arrived')])) =>
            /\ audio_from_customer' =
                    audio_from_customer \o ExpectedFromCustomer(arrived'[Len(arrived')])
            /\ audio_to_customer' =
                    audio_to_customer \o ExpectedToCustomer(arrived'[Len(arrived')])]_vars

\* s is the first bytes of t.
IsPrefix(s, t) == Len(s) <= Len(t) /\ SubSeq(t, 1, Len(s)) = s

\* What the code does for C13: no exception leaves the callback; a call
\* that fails keeps what the accumulators held and may have appended the
\* payloads of the blocks in front of the one that failed; a well-formed
\* fragment with the Kinesis Video Streams tags is processed whatever
\* arrived before it.
FailureKeepsEarlierAudio ==
    /\ [](propagated = "")
    /\ [][FragmentFails =>
            /\ IsPrefix(audio_from_customer, audio_from_customer')
            /\ IsPrefix(audio_to_customer, audio_to_customer')]_vars
    /\ [][(/\ FragmentArrives
           /\ WellFormed(arrived'[Len(arrived')])
           /\ CarriesKvsTimings(arrived'[Len(arrived')])) =>
            /\ audio_from_customer' =
                    audio_from_customer \o ExpectedFromCustomer(arrived'[Len(arrived')])
            /\ audio_to_customer' =
                    audio_to_customer \o ExpectedToCustomer(arrived'[Len(arrived')])]_vars

\* A call failed after it had appended to an accumulator.
FailedAfterAppend ==
    ~(/\ Len(arrived) = 1
      /\ fragment_errors = 1
      /\ audio_from_customer # <<>>)

\* The consumer thread has ended, by either callback.
StreamEnded == consumer_pc \in {"completed", "failed"}

\* C14: once the consumer thread has finished reading the stream, through
\* on_stream_read_complete or through on_stream_read_exception,
\* stream_stopped becomes true and service_loop leaves its loop, joins the
\* thread and returns.
C14_LoopEndsWithStream == StreamEnded ~> (stream_stopped /\ main_pc = "returned")

\* What the code does for C14: service_loop returns after a stream that ended
\* through on_stream_read_complete.
CompletedStreamEndsLoop ==
    (consumer_pc = "completed") ~> (stream_stopped /\ main_pc = "returned")

\* After a stream that ended through on_stream_read_exception the flag stays
\* false and service_loop stays in its loop.
FailedStreamKeepsLoop ==
    consumer_pc = "failed" => (~stream_stopped /\ main_pc \in {"loop", "sleep"})

====
